---- MODULE Spec2Model ----
(***************************************************************************)
(* Salesforce MCP server (nive23/MCPHTTPWithPython).                       *)
(*                                                                         *)
(* Three variants of one server are modelled, selected by `variant`:       *)
(*   "azure"    src/salesforce_mcp_server_azure.py   (FastMCP tools)       *)
(*   "http"     src/salesforce_mcp_server_http.py    (FastMCP tools)       *)
(*   "fastapi"  src/salesforce_mcp_server_fastapi.py (JSON-RPC dispatcher) *)
(*                                                                         *)
(* Python values are encoded as follows.                                   *)
(*   None / a present value x     : <<>> / <<x>>   (None, Some(x), Val(o)) *)
(*   the opportunity id           : a sequence of one-character strings    *)
(*   an error message (str(e))    : a sequence of string pieces            *)
(*   an exception                 : [type |-> ..., msg |-> message]        *)
(* Specifications:                                                         *)
(*   Spec       the credential cache and the account listing, fine clock   *)
(*   SpecQuote  the quote workflow, coarse clock                           *)
(***************************************************************************)
EXTENDS Integers, Sequences, FiniteSets, TLC

VARIABLES
    variant,      \* which server file is running
    now,          \* time.time(), in whole seconds
    _sf_client,   \* module global: cached Salesforce client, or None
    _auth_time,   \* module global: time of the last successful authentication, or None
    authCount,    \* history: number of POSTs made to the token endpoint
    lastOutcome,  \* history: how the previous get_salesforce call ended
    gs,           \* history: the get_salesforce call of the handler being served
    ret,          \* the response of the finished handler, until it is delivered
    crmCalls,     \* history: CRM calls (query / create) issued by the handler being served
    wf,           \* create_quote_from_opportunity: position and locals of the running invocation
    quoteCount,   \* CRM side: number of records the CRM has created (fresh ids)
        lastQuote,    \* history: opportunity id and quote id of the last successful result delivered
    callers,      \* threads inside get_salesforce: position and locals of each
    timeOwner     \* history: the access token of the authentication that wrote _auth_time

vars == <<variant, now, _sf_client, _auth_time, authCount, lastOutcome, gs, ret, crmCalls, wf,
          quoteCount, lastQuote, callers, timeOwner>>


----------------------------------------------------------------------------
(* Bounds of the model *)

MaxCoarse == 2
MaxFine == 2
MaxAuth == 3
MaxLines == 2
MaxQuotes == 2
MaxEpochs == 1
MaxCallers == 2

(* Program constants *)

TOKEN_TTL == 3600
DEFAULT_LIMIT == 5
MIN_LIMIT == 1
MAX_LIMIT == 100

----------------------------------------------------------------------------
(* Python optional values and truthiness *)

None == <<>>
Some(x) == <<x>>
Val(o) == o[1]

Variants == {"azure", "http", "fastapi"}

\* Instants of the fine clock: around every multiple of the token lifetime.
Times == {1 + c * TOKEN_TTL + f : c \in 0..MaxCoarse, f \in 0..MaxFine}

\* Instants of the coarse clock: a fresh instant and one past the token lifetime.
CoarseTimes == {1 + c * (TOKEN_TTL + 1) : c \in 0..MaxEpochs}

\* How long the token request may take (time.time() is read again after it).
AuthDelays == {0, 1}

Exc(type, msg) == [type |-> type, msg |-> msg]

\* msg contains the piece w
Contains(msg, w) == \E i \in 1..Len(msg) : msg[i] = w

----------------------------------------------------------------------------
(* The token endpoint: what requests.post(...) may produce *)

TokenResponses ==
    { [kind |-> "response", status |-> "200", text |-> "json", keys |-> k] :
          k \in { {"instance_url", "access_token"}, {"access_token"}, {"instance_url"} } }
    \cup
    { [kind |-> "response", status |-> s, text |-> "invalid_grant", keys |-> {}] :
          s \in {"401", "500"} }
    \cup
    { [kind |-> k, status |-> "", text |-> "", keys |-> {}] : k \in {"transport", "timeout"} }

NoResponse == [kind |-> "none", status |-> "", text |-> "", keys |-> {}]

AuthOk(resp) ==
    /\ resp.kind = "response"
    /\ resp.status = "200"
    /\ {"instance_url", "access_token"} \subseteq resp.keys

\* The exception get_salesforce raises for a failing token exchange.
AuthFailure(v, resp) ==
    CASE resp.kind = "transport" -> Exc("ConnectionError", <<"connection failed">>)
      [] resp.kind = "timeout" -> Exc("Timeout", <<"read timed out">>)
      [] resp.kind = "response" /\ resp.status # "200" ->
            IF v = "http"
            THEN Exc("RuntimeError", <<"Auth failed: ", resp.text>>)
            ELSE Exc("RuntimeError", <<"Auth failed: ", resp.status, " - ", resp.text>>)
      [] resp.kind = "response" /\ resp.status = "200" /\ "instance_url" \notin resp.keys ->
            Exc("KeyError", <<"'instance_url'">>)
      [] OTHER -> Exc("KeyError", <<"'access_token'">>)

----------------------------------------------------------------------------
(* get_salesforce *)

ExpiredAtTtl(client, atime, t) ==
    client # None /\ atime # None /\ (t - Val(atime)) >= TOKEN_TTL

ExpiredNever(client, atime, t) == FALSE

ExpiredAfterTwoTtl(client, atime, t) ==
    client # None /\ atime # None /\ (t - Val(atime)) > 2 * TOKEN_TTL

\* if _sf_client and _auth_time and (time.time() - _auth_time) > 3600
Expired(client, atime, t) ==
    client # None /\ atime # None /\ (t - Val(atime)) > TOKEN_TTL

\* Salesforce(instance_url=data["instance_url"], session_id=data["access_token"])
Salesforce(token) == [sf_instance |-> "instance", session_id |-> token]

GetSalesforceClearsTime(v, client, atime, t, resp, d, token) ==
    LET c1 == IF Expired(client, atime, t) THEN None ELSE client
    IN  IF c1 # None
        THEN [client |-> c1, time |-> atime, now |-> t, requested |-> FALSE,
              outcome |-> "return", value |-> c1, exc |-> None]
        ELSE IF AuthOk(resp)
        THEN [client |-> Some(Salesforce(token)), time |-> Some(t + d), now |-> t + d,
              requested |-> TRUE, outcome |-> "return",
              value |-> Some(Salesforce(token)), exc |-> None]
        ELSE [client |-> None, time |-> None, now |-> t + d,
              requested |-> TRUE, outcome |-> "raise",
              value |-> None, exc |-> Some(AuthFailure(v, resp))]

GetSalesforceCachesFailure(v, client, atime, t, resp, d, token) ==
    LET c1 == IF Expired(client, atime, t) THEN None ELSE client
    IN  IF c1 # None
        THEN [client |-> c1, time |-> atime, now |-> t, requested |-> FALSE,
              outcome |-> "return", value |-> c1, exc |-> None]
        ELSE IF AuthOk(resp)
        THEN [client |-> Some(Salesforce(token)), time |-> Some(t + d), now |-> t + d,
              requested |-> TRUE, outcome |-> "return",
              value |-> Some(Salesforce(token)), exc |-> None]
        ELSE [client |-> Some(Salesforce(token)), time |-> Some(t + d), now |-> t + d,
              requested |-> TRUE, outcome |-> "raise",
              value |-> None, exc |-> Some(AuthFailure(v, resp))]

\* One call of get_salesforce in variant v, entered at time t with the cache
\* (client, atime); the token endpoint answers resp after d seconds and a
\* successful answer carries the access token `token`. The result gives the
\* cache and the clock after the call, whether the token endpoint was asked,
\* and what the call returned or raised.
GetSalesforce(v, client, atime, t, resp, d, token) ==
    LET c1 == IF Expired(client, atime, t) THEN None ELSE client
    IN  IF c1 # None
        THEN [client |-> c1, time |-> atime, now |-> t, requested |-> FALSE,
              outcome |-> "return", value |-> c1, exc |-> None]
        ELSE IF AuthOk(resp)
        THEN [client |-> Some(Salesforce(token)), time |-> Some(t + d), now |-> t + d,
              requested |-> TRUE, outcome |-> "return",
              value |-> Some(Salesforce(token)), exc |-> None]
        ELSE [client |-> None, time |-> atime, now |-> t + d,
              requested |-> TRUE, outcome |-> "raise",
              value |-> None, exc |-> Some(AuthFailure(v, resp))]

\* Whether a call entered now would ask the token endpoint.
NeedsAuth == _sf_client = None \/ Expired(_sf_client, _auth_time, now)

\* The history record of a get_salesforce call with result r.
GsRecord(r, resp) ==
    [called |-> TRUE,
     pre_client |-> _sf_client, pre_time |-> _auth_time, at |-> now,
     resp |-> IF r.requested THEN resp ELSE NoResponse,
     requested |-> r.requested, outcome |-> r.outcome, value |-> r.value, exc |-> r.exc,
     post_client |-> r.client, post_time |-> r.time,
     prev |-> lastOutcome]

NoCall ==
    [called |-> FALSE,
     pre_client |-> None, pre_time |-> None, at |-> 0,
     resp |-> NoResponse,
     requested |-> FALSE, outcome |-> "none", value |-> None, exc |-> None,
     post_client |-> None, post_time |-> None,
     prev |-> "none"]

\* The effect of a get_salesforce call with result r on the globals and the history.
ApplyGetSalesforce(r, resp) ==
    /\ _sf_client' = r.client
    /\ _auth_time' = r.time
    /\ now' = r.now
    /\ authCount' = IF r.requested THEN authCount + 1 ELSE authCount
    /\ gs' = GsRecord(r, resp)
    /\ lastOutcome' = r.outcome

----------------------------------------------------------------------------
(* Handler responses *)

\* json.dumps(x, indent=2): the text of x
JsonDumps(x) == [json |-> x]

\* A FastMCP tool function returned v / raised e.
ToolReturn(v) ==
    [kind |-> "return", id |-> None, value |-> Some(v), exc |-> None,
     code |-> None, message |-> None, http_status |-> None]

ToolRaise(e) ==
    [kind |-> "raise", id |-> None, value |-> None, exc |-> Some(e),
     code |-> None, message |-> None, http_status |-> None]

\* mcp_request returned {"jsonrpc": "2.0", "id": id, "result": {"content": [{"type": "text", "text": ...}]}}
RpcResult(id, v) ==
    [kind |-> "jsonrpc_result", id |-> id,
     value |-> Some(<<[type |-> "text", text |-> JsonDumps(v)]>>), exc |-> None,
     code |-> None, message |-> None, http_status |-> Some(200)]

\* mcp_request returned JSONResponse(status_code=200, {"jsonrpc": "2.0", "id": id, "error": {code, message}})
RpcError(id, code, msg) ==
    [kind |-> "jsonrpc_error", id |-> id, value |-> None, exc |-> None,
     code |-> Some(code), message |-> Some(msg), http_status |-> Some(200)]

NoResponseYet ==
    [kind |-> "none", id |-> None, value |-> None, exc |-> None,
     code |-> None, message |-> None, http_status |-> None]

INTERNAL_ERROR == -32603

RequestIds == {Some("r1"), None}

----------------------------------------------------------------------------
(* The CRM: sf.query(...) on Account *)

MaxAccounts == 2

AccountRow(i) == [Id |-> <<"001", i>>, Name |-> <<"Account", i>>]

\* A CRM call as issued by a handler.
QueryCall(object, limit, where, session, ok) ==
    [op |-> "query", object |-> object, limit |-> limit, where |-> where,
          data |-> None, session |-> session, ok |-> ok, records |-> <<>>]

\* The call together with what the CRM answered: the records of a query, the
\* id of a created record.
Answered(call, records) == [call EXCEPT !.records = records]

\* What the CRM answers to "SELECT Id, Name FROM Account LIMIT limit" when it
\* holds n accounts: an error for a malformed (negative) limit or a failing
\* transport, else the first min(limit, n) rows.
AccountQuery(limit, n, fails) ==
    IF fails THEN [ok |-> FALSE, records |-> <<>>,
                   exc |-> Some(Exc("SalesforceError", <<"request failed">>))]
    ELSE IF limit < 0 THEN [ok |-> FALSE, records |-> <<>>,
                   exc |-> Some(Exc("SalesforceMalformedRequest", <<"MALFORMED_QUERY">>))]
    ELSE [ok |-> TRUE,
          records |-> [i \in 1..(IF limit < n THEN limit ELSE n) |-> AccountRow(i)],
          exc |-> None]

----------------------------------------------------------------------------
(* get_accounts *)

ClampLimitExclusive(limit) ==
    IF limit <= MIN_LIMIT \/ limit >= MAX_LIMIT THEN DEFAULT_LIMIT ELSE limit

\* if limit < 1 or limit > 100: limit = 5
ClampLimit(limit) ==
    IF limit < MIN_LIMIT \/ limit > MAX_LIMIT THEN DEFAULT_LIMIT ELSE limit

\* def get_accounts(limit: int = 5) / arguments.get("limit", 5)
LimitArg(limit) == IF limit = None THEN DEFAULT_LIMIT ELSE Val(limit)

\* azure get_accounts: r is the result of its get_salesforce call; the CRM
\* holds n accounts and its query transport fails iff `fails`.
\* Gives the tool's response and the CRM calls it issued.
GetAccountsAzure(limit, r, n, fails) ==
    LET lim == ClampLimit(LimitArg(limit))
        q == AccountQuery(lim, n, fails)
        folded(e) == ToolReturn(<<[error |-> <<"Error fetching accounts: ">> \o e.msg]>>)
    IN  IF r.outcome = "raise"
        THEN [out |-> folded(Val(r.exc)), calls |-> <<>>]
        ELSE IF ~q.ok
        THEN [out |-> folded(Val(q.exc)),
              calls |-> <<Answered(QueryCall("Account", Some(lim), None,
                                           Val(r.value).session_id, q.ok), q.records)>>]
        ELSE [out |-> ToolReturn(q.records),
              calls |-> <<Answered(QueryCall("Account", Some(lim), None,
                                           Val(r.value).session_id, q.ok), q.records)>>]

\* http get_accounts: no validation of limit, no exception handler.
GetAccountsHttp(limit, r, n, fails) ==
    LET lim == LimitArg(limit)
        q == AccountQuery(lim, n, fails)
    IN  IF r.outcome = "raise"
        THEN [out |-> ToolRaise(Val(r.exc)), calls |-> <<>>]
        ELSE IF ~q.ok
        THEN [out |-> ToolRaise(Val(q.exc)),
              calls |-> <<Answered(QueryCall("Account", Some(lim), None,
                                           Val(r.value).session_id, q.ok), q.records)>>]
        ELSE [out |-> ToolReturn(q.records),
              calls |-> <<Answered(QueryCall("Account", Some(lim), None,
                                           Val(r.value).session_id, q.ok), q.records)>>]

\* fastapi mcp_request, method "tools/call", name "get_accounts": exceptions
\* reach the handler's outer except and become a JSON-RPC error.
McpGetAccounts(id, limit, r, n, fails) ==
    LET lim == ClampLimit(LimitArg(limit))
        q == AccountQuery(lim, n, fails)
    IN  IF r.outcome = "raise"
        THEN [out |-> RpcError(id, INTERNAL_ERROR, Val(r.exc).msg), calls |-> <<>>]
        ELSE IF ~q.ok
        THEN [out |-> RpcError(id, INTERNAL_ERROR, Val(q.exc).msg),
              calls |-> <<Answered(QueryCall("Account", Some(lim), None,
                                           Val(r.value).session_id, q.ok), q.records)>>]
        ELSE [out |-> RpcResult(id, q.records),
              calls |-> <<Answered(QueryCall("Account", Some(lim), None,
                                           Val(r.value).session_id, q.ok), q.records)>>]

Limits == {None} \cup {Some(l) : l \in {-1, 0, 1, 5, 100, 101}}

\* What a finished handler hands back, with the arguments it was called with
\* (request_id: the "id" of the JSON-RPC request, fastapi only).
Response(op, request_id, limit, opportunity_id, out) ==
    [op |-> op, request_id |-> request_id, limit |-> limit,
     opportunity_id |-> opportunity_id, out |-> out]

\* The result record create_quote_from_opportunity starts from.
EmptyResult ==
    [quoteId |-> None, opportunityId |-> None, opportunityName |-> None,
     accountId |-> None, accountName |-> None, accountPhone |-> None,
     accountIndustry |-> None, quoteLineCount |-> 0, quoteLines |-> <<>>,
     errorMessage |-> None]

\* The position and locals of create_quote_from_opportunity when no invocation runs.
IdleWf ==
    [pc |-> "idle", id |-> None, opportunity_id |-> None, sf |-> None, opp |-> None,
     quote_id |-> None, olis |-> <<>>, quote_lines |-> <<>>, line_responses |-> <<>>,
     result |-> EmptyResult]

\* One invocation of the account listing with argument `limit` (request id
\* `id` in the fastapi variant).
GetAccounts(id, limit, resp, d, n, fails) ==
    /\ wf.pc = "idle"
    /\ ret.op = "none"
    /\ NeedsAuth => authCount < MaxAuth
    /\ LET r == GetSalesforce(variant, _sf_client, _auth_time, now, resp, d, authCount + 1)
           h == CASE variant = "azure" -> GetAccountsAzure(limit, r, n, fails)
                  [] variant = "http" -> GetAccountsHttp(limit, r, n, fails)
                  [] OTHER -> McpGetAccounts(id, limit, r, n, fails)
       IN  /\ r.now \in Times
           /\ ApplyGetSalesforce(r, resp)
           /\ ret' = Response("get_accounts", id, limit, None, h.out)
           /\ crmCalls' = h.calls
    /\ UNCHANGED <<variant, lastQuote, callers, timeOwner, wf, quoteCount>>

\* Time passes (fine clock).
Tick ==
    /\ ret.op = "none"
    /\ \E t \in Times : t > now /\ now' = t
    /\ UNCHANGED <<variant, lastQuote, callers, timeOwner, _sf_client, _auth_time, authCount, lastOutcome, gs, ret, crmCalls,
                   wf, quoteCount>>

NoReturn == Response("none", None, None, None, NoResponseYet)

\* The value a handler returned to its caller, if it returned one: the tool's
\* return value, or the json text of the JSON-RPC result's content.
ReturnedRecord(out) ==
    CASE out.kind = "return" -> out.value
      [] out.kind = "jsonrpc_result" -> Some(Val(out.value)[1].text.json)
      [] OTHER -> None

\* r is the response of a quote invocation that ended without error.
SuccessfulQuote(r) ==
    /\ r.op = "create_quote_from_opportunity"
    /\ ReturnedRecord(r.out) # None
    /\ Val(ReturnedRecord(r.out)).errorMessage = None

\* The response of the finished handler is delivered to the caller; the
\* server is ready for the next request.
Respond ==
    /\ ret.op # "none"
    /\ ret' = NoReturn
    /\ gs' = NoCall
    /\ crmCalls' = <<>>
    /\ lastQuote' = IF SuccessfulQuote(ret)
                    THEN Some([opportunity_id |-> ret.opportunity_id,
                               quoteId |-> Val(ReturnedRecord(ret.out)).quoteId])
                    ELSE lastQuote
    /\ UNCHANGED <<variant, callers, timeOwner, now, _sf_client, _auth_time, authCount,
                   lastOutcome, wf, quoteCount>>

----------------------------------------------------------------------------
(* The CRM as the quote workflow sees it *)

CreateCallAsUpdate(object, data, session, ok) ==
    [op |-> "update", object |-> object, limit |-> None, where |-> None,
     data |-> Some(data), session |-> session, ok |-> ok, records |-> <<>>]

CreateCall(object, data, session, ok) ==
    [op |-> "create", object |-> object, limit |-> None, where |-> None,
          data |-> Some(data), session |-> session, ok |-> ok, records |-> <<>>]

CrmError == Exc("SalesforceError", <<"request failed">>)

\* dict.get(key, default)
Get(dict, key, default) == IF key \in DOMAIN dict THEN dict[key] ELSE default

\* Python truthiness of an optional number / of an optional non-empty object
TruthyNum(o) == o # None /\ Val(o) # 0
TruthyObj(o) == o # None
TruthyStrAbsentOnly(o) == o # None
TruthyStr(o) == o # None /\ Val(o) # ""

\* a or b
Or(a, b) == IF TruthyObj(a) THEN a ELSE b

\* Opportunity ids a caller may pass.
OpportunityIds ==
    { <<>>, <<"0", "0">>, <<"0", "0", "1", "A">>, <<"0", "0", "6", "A">>, <<"0", "0", "6", "B">> }

\* "006"
OPP_PREFIX == <<"0", "0", "6">>

\* s.startswith(prefix)
StartsWith(s, prefix) ==
    Len(s) >= Len(prefix) /\ SubSeq(s, 1, Len(prefix)) = prefix

\* not opportunity_id
MissingId(oid) == oid = None \/ Val(oid) = <<>>

EmbeddedAccounts ==
    { [Id |-> i, Name |-> Some("Acme"), Phone |-> Some("555-1234"), Industry |-> Some("Tech")] :
          i \in {None, Some("001E")} }

\* The records the Opportunity query may return for id.
Opportunities(id) ==
    { [Id |-> id, Name |-> "Deal", AccountId |-> a[1], Account |-> a[2], Pricebook2Id |-> p] :
          a \in ({<<None, None>>, <<Some("001X"), None>>}
                 \cup {<<Some("001X"), Some(e)>> : e \in EmbeddedAccounts}),
          p \in {None, Some(""), Some("01sP")} }

\* The answers to the Opportunity query: a failure, no record, one record.
OpportunityAnswers(id) ==
    { [ok |-> FALSE, records |-> <<>>], [ok |-> TRUE, records |-> <<>>] }
    \cup { [ok |-> TRUE, records |-> <<o>>] : o \in Opportunities(id) }

\* The answers to the secondary Account query.
AccountAnswers ==
    { [ok |-> FALSE, records |-> <<>>], [ok |-> TRUE, records |-> <<>>],
      [ok |-> TRUE,
       records |-> <<[Name |-> Some("Acme"), Phone |-> None, Industry |-> Some("Tech")]>>] }

\* OpportunityLineItem records: a complete line, a line without pricebook
\* entry, and a line with zero quantity, a null list price and no UnitPrice
\* and Product2 keys.
LineItems ==
    { [Id |-> "oli-full", PricebookEntryId |-> Some("pbe1"), Quantity |-> Some(3),
       UnitPrice |-> Some(10), PricebookEntry |-> Some([UnitPrice |-> Some(12)]),
       Product2 |-> Some([SKU__c |-> Some("SKU1")])],
      [Id |-> "oli-nopbe", PricebookEntryId |-> None, Quantity |-> Some(1),
       UnitPrice |-> Some(10), PricebookEntry |-> None,
       Product2 |-> Some([SKU__c |-> Some("SKU2")])],
      [Id |-> "oli-zero", PricebookEntryId |-> Some("pbe2"), Quantity |-> Some(0),
       PricebookEntry |-> Some([UnitPrice |-> None])] }

\* The records of one query answer are distinct records.
LineSeqs ==
    UNION { {l \in [1..n -> LineItems] : \A i, j \in 1..n : l[i] = l[j] => i = j} :
              n \in 0..MaxLines }

\* The answers to the OpportunityLineItem query.
LineAnswers ==
    { [ok |-> FALSE, records |-> <<>>] } \cup { [ok |-> TRUE, records |-> l] : l \in LineSeqs }

----------------------------------------------------------------------------
(* create_quote_from_opportunity / create_quote_logic *)

ValidateAzureNoPrefix(oid) ==
    IF MissingId(oid)
    THEN Some(Exc("ValueError", <<"Opportunity Id is required">>))
    ELSE None

\* azure, inside the try: the id is required and must start with "006".
ValidateAzure(oid) ==
    IF MissingId(oid)
    THEN Some(Exc("ValueError", <<"Opportunity Id is required">>))
    ELSE IF ~StartsWith(Val(oid), OPP_PREFIX)
    THEN Some(Exc("ValueError", <<"Invalid Opportunity ID format: ">> \o Val(oid)
                                   \o <<". Must start with '006'">>))
    ELSE None

ValidateHttpAccepts(oid) == None

\* http, inside the try: the id is required.
ValidateHttp(oid) ==
    IF MissingId(oid)
    THEN Some(Exc("ValueError", <<"Opportunity Id is required">>))
    ELSE None

\* fastapi mcp_request, before create_quote_logic is called and outside its
\* try: a missing id raises into the handler's outer except.
McpRejects(oid) == MissingId(oid)

\* fastapi create_quote_logic, inside the try: the id must start with "006".
ValidateLogic(oid) ==
    IF ~StartsWith(Val(oid), OPP_PREFIX)
    THEN Some(Exc("ValueError", <<"Invalid Opportunity ID format: ">> \o Val(oid)))
    ELSE None

Validate(v, oid) ==
    CASE v = "azure" -> ValidateAzure(oid)
      [] v = "http" -> ValidateHttp(oid)
      [] OTHER -> ValidateLogic(oid)

WithErrorReset(result, e) == [EmptyResult EXCEPT !.errorMessage = Some(e.msg)]

\* except Exception as e: result["errorMessage"] = str(e)
WithError(result, e) == [result EXCEPT !.errorMessage = Some(e.msg)]

\* What the caller receives for a returned result record.
QuoteResponse(v, id, result) ==
    IF v = "fastapi" THEN RpcResult(id, result) ELSE ToolReturn(result)

\* The handler returns `out`; no invocation runs any more.
Finish(id, oid, out) ==
    /\ ret' = Response("create_quote_from_opportunity", id, None, oid, out)
    /\ wf' = IdleWf

\* The handler returns its result record.
Return(result) == Finish(wf.id, wf.opportunity_id, QuoteResponse(variant, wf.id, result))

\* Stage 1: the handler is entered with opportunity_id = oid (request id `id`
\* in the fastapi variant), validates it and obtains the session.
QuoteStart(id, oid, resp, d) ==
    /\ wf.pc = "idle"
    /\ ret.op = "none"
    /\ quoteCount < MaxQuotes
    /\ crmCalls' = <<>>
    /\ IF variant = "fastapi" /\ McpRejects(oid)
       THEN /\ Finish(id, oid, RpcError(id, INTERNAL_ERROR, <<"Opportunity Id is required">>))
            /\ UNCHANGED <<now, _sf_client, _auth_time, authCount, lastOutcome, gs>>
       ELSE IF Validate(variant, oid) # None
       THEN /\ Finish(id, oid, QuoteResponse(variant, id,
                                         WithError(EmptyResult, Val(Validate(variant, oid)))))
            /\ UNCHANGED <<now, _sf_client, _auth_time, authCount, lastOutcome, gs>>
       ELSE /\ NeedsAuth => authCount < MaxAuth
            /\ LET r == GetSalesforce(variant, _sf_client, _auth_time, now, resp, d,
                                      authCount + 1)
               IN  /\ r.now \in Times
                   /\ ApplyGetSalesforce(r, resp)
                   /\ IF r.outcome = "raise"
                      THEN Finish(id, oid, QuoteResponse(variant, id,
                                                     WithError(EmptyResult, Val(r.exc))))
                      ELSE /\ wf' = [IdleWf EXCEPT !.pc = "fetch_opp", !.id = id,
                                                   !.opportunity_id = oid, !.sf = r.value]
                           /\ UNCHANGED ret
    /\ UNCHANGED <<variant, lastQuote, callers, timeOwner, quoteCount>>

NotFoundSilent(oid) == Exc("ValueError", <<"Opportunity with Id ">> \o Val(oid))

NotFound(oid) ==
    Exc("ValueError", <<"Opportunity with Id ">> \o Val(oid) \o <<" ", "not found">>)

NoPricebook(v) ==
    IF v = "http"
    THEN Exc("ValueError", <<"Opportunity must have a ", "Pricebook">>)
    ELSE Exc("ValueError", <<"Opportunity must have a ", "Pricebook", " assigned">>)

\* Stage 2: the Opportunity query answers q.
QuoteFetchOpp(q) ==
    /\ wf.pc = "fetch_opp"
    /\ crmCalls' = Append(crmCalls,
                          Answered(QueryCall("Opportunity", Some(1), wf.opportunity_id,
                                             Val(wf.sf).session_id, q.ok), q.records))
    /\ IF ~q.ok
       THEN Return(WithError(wf.result, CrmError))
       ELSE IF q.records = <<>>
       THEN Return(WithError(wf.result, NotFound(wf.opportunity_id)))
       ELSE IF ~TruthyStr(q.records[1].Pricebook2Id)
       THEN Return(WithError(wf.result, NoPricebook(variant)))
       ELSE /\ wf' = [wf EXCEPT !.pc = "create_quote", !.opp = Some(q.records[1])]
            /\ UNCHANGED ret
    /\ UNCHANGED <<variant, lastQuote, callers, timeOwner, now, _sf_client, _auth_time, authCount, lastOutcome, gs, quoteCount>>

\* The Quote record sent to the CRM.
QuoteData(opp) ==
    [Name |-> <<opp.Name, " - Quote">>, OpportunityId |-> opp.Id,
     Pricebook2Id |-> Val(opp.Pricebook2Id)]

PopulateNoQuoteId(result, quote_id, opp) ==
    [result EXCEPT !.opportunityId = Some(opp.Id), !.opportunityName = Some(opp.Name)]

\* The result after the Quote was created: quote and opportunity fields and
\* what the opportunity record itself says about the account.
Populate(result, quote_id, opp) ==
    LET r1 == [result EXCEPT !.quoteId = Some(quote_id),
                             !.opportunityId = Some(opp.Id),
                             !.opportunityName = Some(opp.Name)]
    IN  IF TruthyObj(opp.Account)
        THEN [r1 EXCEPT !.accountId = Or(Val(opp.Account).Id, opp.AccountId),
                        !.accountName = Val(opp.Account).Name,
                        !.accountPhone = Val(opp.Account).Phone,
                        !.accountIndustry = Val(opp.Account).Industry]
        ELSE [r1 EXCEPT !.accountId = opp.AccountId]

LooksUpAccountById(v, opp) == v # "fastapi" /\ TruthyObj(opp.AccountId)

\* Whether the secondary Account query follows (never in create_quote_logic).
LooksUpAccount(v, opp) ==
    v # "fastapi" /\ ~TruthyObj(opp.Account) /\ TruthyObj(opp.AccountId)

\* A workflow that looked for the Quote it last returned for the same
\* opportunity and reused it instead of creating another one.
QuoteCreateDedup(ok) ==
    /\ wf.pc = "create_quote"
    /\ LET opp == Val(wf.opp)
           known == lastQuote # None /\ Val(lastQuote).opportunity_id = wf.opportunity_id
           quote_id == IF known THEN Val(Val(lastQuote).quoteId) ELSE quoteCount + 1
       IN  /\ crmCalls' = IF known THEN crmCalls
                          ELSE Append(crmCalls,
                                      Answered(CreateCall("Quote", QuoteData(opp),
                                                          Val(wf.sf).session_id, ok),
                                               IF ok THEN <<quote_id>> ELSE <<>>))
           /\ IF ~ok /\ ~known
              THEN /\ Return(WithError(wf.result, CrmError))
                   /\ UNCHANGED quoteCount
              ELSE /\ quoteCount' = IF known THEN quoteCount ELSE quote_id
                   /\ wf' = [wf EXCEPT !.pc = IF LooksUpAccount(variant, opp)
                                               THEN "account" ELSE "fetch_lines",
                                       !.quote_id = Some(quote_id),
                                       !.result = Populate(wf.result, quote_id, opp)]
                   /\ UNCHANGED ret
    /\ UNCHANGED <<variant, lastQuote, callers, timeOwner, now, _sf_client, _auth_time, authCount, lastOutcome, gs>>

\* A workflow that took the session from the shared cache again before
\* creating the Quote.
QuoteCreateRereads(ok) ==
    /\ wf.pc = "create_quote"
    /\ LET opp == Val(wf.opp)
           quote_id == quoteCount + 1
           sf == IF _sf_client # None THEN _sf_client ELSE wf.sf
       IN  /\ crmCalls' = Append(crmCalls,
                                 Answered(CreateCall("Quote", QuoteData(opp),
                                                     Val(sf).session_id, ok),
                                          IF ok THEN <<quote_id>> ELSE <<>>))
           /\ IF ~ok
              THEN /\ Return(WithError(wf.result, CrmError))
                   /\ UNCHANGED quoteCount
              ELSE /\ quoteCount' = quote_id
                   /\ wf' = [wf EXCEPT !.pc = IF LooksUpAccount(variant, opp)
                                               THEN "account" ELSE "fetch_lines",
                                       !.quote_id = Some(quote_id),
                                       !.result = Populate(wf.result, quote_id, opp)]
                   /\ UNCHANGED ret
    /\ UNCHANGED <<variant, lastQuote, callers, timeOwner, now, _sf_client, _auth_time,
                   authCount, lastOutcome, gs>>

\* Stage 3: the Quote create succeeds (ok) or fails.
QuoteCreate(ok) ==
    /\ wf.pc = "create_quote"
    /\ LET opp == Val(wf.opp)
           quote_id == quoteCount + 1
       IN  /\ crmCalls' = Append(crmCalls,
                                 Answered(CreateCall("Quote", QuoteData(opp),
                                                     Val(wf.sf).session_id, ok),
                                          IF ok THEN <<quote_id>> ELSE <<>>))
           /\ IF ~ok
              THEN /\ Return(WithError(wf.result, CrmError))
                   /\ UNCHANGED quoteCount
              ELSE /\ quoteCount' = quote_id
                   /\ wf' = [wf EXCEPT !.pc = IF LooksUpAccount(variant, opp)
                                               THEN "account" ELSE "fetch_lines",
                                       !.quote_id = Some(quote_id),
                                       !.result = Populate(wf.result, quote_id, opp)]
                   /\ UNCHANGED ret
    /\ UNCHANGED <<variant, lastQuote, callers, timeOwner, now, _sf_client, _auth_time, authCount, lastOutcome, gs>>

\* Stage 4 (azure, http): the secondary Account query answers a; its failure
\* is logged and swallowed.
QuoteAccountLookup(a) ==
    /\ wf.pc = "account"
    /\ crmCalls' = Append(crmCalls,
                          Answered(QueryCall("Account", Some(1), wf.result.accountId,
                                             Val(wf.sf).session_id, a.ok), a.records))
    /\ wf' = [wf EXCEPT !.pc = "fetch_lines",
                        !.result = IF a.ok /\ a.records # <<>>
                                   THEN [@ EXCEPT !.accountName = a.records[1].Name,
                                                  !.accountPhone = a.records[1].Phone,
                                                  !.accountIndustry = a.records[1].Industry]
                                   ELSE @]
    /\ UNCHANGED <<variant, lastQuote, callers, timeOwner, now, _sf_client, _auth_time, authCount, lastOutcome, gs, ret,
                   quoteCount>>

\* if not pricebook_entry_id: continue -- the lines left once the leading
\* lines without a pricebook entry are skipped.
RECURSIVE SkipLines(_)
SkipLines(olis) ==
    IF olis = <<>> THEN <<>>
    ELSE IF TruthyObj(Head(olis).PricebookEntryId) THEN olis
    ELSE SkipLines(Tail(olis))

\* float(x)
Float(x) == [float |-> x]

FloatAlways(o) == IF o = None THEN None ELSE Some(Float(Val(o)))

\* float(x) if x else None
FloatOrNone(o) == IF TruthyNum(o) THEN Some(Float(Val(o))) ELSE None

QliDataNoQuote(quote_id, oli) ==
    [QuoteId |-> 0, PricebookEntryId |-> Val(oli.PricebookEntryId),
     Quantity |-> Get(oli, "Quantity", Some(0)), UnitPrice |-> Get(oli, "UnitPrice", Some(0))]

\* The QuoteLineItem record sent to the CRM for oli.
QliData(quote_id, oli) ==
    [QuoteId |-> quote_id, PricebookEntryId |-> Val(oli.PricebookEntryId),
     Quantity |-> Get(oli, "Quantity", Some(0)), UnitPrice |-> Get(oli, "UnitPrice", Some(0))]

\* The response entry of a created line (azure, http).
LineResponse(oli) ==
    LET pbe == Get(oli, "PricebookEntry", None)
        list_price == IF TruthyObj(pbe) THEN Get(Val(pbe), "UnitPrice", None) ELSE None
        product == Get(oli, "Product2", None)
    IN  [skuId |-> IF TruthyObj(product) THEN Get(Val(product), "SKU__c", None) ELSE None,
         listPrice |-> FloatOrNone(list_price),
         salesPrice |-> FloatOrNone(Get(oli, "UnitPrice", Some(0))),
         quantity |-> FloatOrNone(Get(oli, "Quantity", Some(0)))]

\* The result once the loop over the line items has ended (azure, http: the
\* count and the lines are stored after the loop; create_quote_logic has
\* counted as it went).
AfterLoop(v, w) ==
    IF v = "fastapi" THEN w.result
    ELSE [w.result EXCEPT !.quoteLineCount = Len(w.quote_lines),
                          !.quoteLines = w.line_responses]

\* Stage 5a: the OpportunityLineItem query answers q.
QuoteFetchLines(q) ==
    /\ wf.pc = "fetch_lines"
    /\ crmCalls' = Append(crmCalls,
                          Answered(QueryCall("OpportunityLineItem", None,
                                             Some(Val(wf.opp).Id),
                                             Val(wf.sf).session_id, q.ok), q.records))
    /\ IF ~q.ok
       THEN Return(WithError(wf.result, CrmError))
       ELSE IF q.records = <<>>
       THEN Return(wf.result)
       ELSE IF SkipLines(q.records) = <<>>
       THEN Return(AfterLoop(variant, wf))
       ELSE /\ wf' = [wf EXCEPT !.pc = "lines", !.olis = SkipLines(q.records)]
            /\ UNCHANGED ret
    /\ UNCHANGED <<variant, lastQuote, callers, timeOwner, now, _sf_client, _auth_time, authCount, lastOutcome, gs, quoteCount>>

\* A loop that logs a failing QuoteLineItem create and goes on with the next line.
QuoteCreateLineContinues(ok) ==
    /\ wf.pc = "lines"
    /\ LET oli == Head(wf.olis)
           qli_id == <<Val(wf.quote_id), Len(crmCalls)>>
           w == IF ~ok THEN wf
                ELSE IF variant = "fastapi"
                THEN [wf EXCEPT !.result.quoteLineCount = @ + 1]
                ELSE [wf EXCEPT !.quote_lines = Append(@, qli_id),
                                !.line_responses = Append(@, LineResponse(oli))]
           rest == SkipLines(Tail(wf.olis))
       IN  /\ crmCalls' = Append(crmCalls,
                                 Answered(CreateCall("QuoteLineItem",
                                                     QliData(Val(wf.quote_id), oli),
                                                     Val(wf.sf).session_id, ok),
                                          IF ok THEN <<qli_id>> ELSE <<>>))
           /\ IF rest = <<>>
              THEN Return(AfterLoop(variant, w))
              ELSE /\ wf' = [w EXCEPT !.olis = rest]
                   /\ UNCHANGED ret
    /\ UNCHANGED <<variant, lastQuote, callers, timeOwner, now, _sf_client, _auth_time,
                   authCount, lastOutcome, gs, quoteCount>>

\* Stage 5b: the QuoteLineItem create for the next line with a pricebook
\* entry succeeds (ok) or fails.
QuoteCreateLine(ok) ==
    /\ wf.pc = "lines"
    /\ LET oli == Head(wf.olis)
           qli_id == <<Val(wf.quote_id), Len(crmCalls)>>
           w == IF variant = "fastapi"
                THEN [wf EXCEPT !.result.quoteLineCount = @ + 1]
                ELSE [wf EXCEPT !.quote_lines = Append(@, qli_id),
                                !.line_responses = Append(@, LineResponse(oli))]
           rest == SkipLines(Tail(wf.olis))
       IN  /\ crmCalls' = Append(crmCalls,
                                 Answered(CreateCall("QuoteLineItem",
                                                     QliData(Val(wf.quote_id), oli),
                                                     Val(wf.sf).session_id, ok),
                                          IF ok THEN <<qli_id>> ELSE <<>>))
           /\ IF ~ok
              THEN Return(WithError(wf.result, CrmError))
              ELSE IF rest = <<>>
              THEN Return(AfterLoop(variant, w))
              ELSE /\ wf' = [w EXCEPT !.olis = rest]
                   /\ UNCHANGED ret
    /\ UNCHANGED <<variant, lastQuote, callers, timeOwner, now, _sf_client, _auth_time, authCount, lastOutcome, gs, quoteCount>>

\* Time passes (coarse clock) between invocations: the workflow reads the
\* clock only in get_salesforce, at its start.
TickCoarse ==
    /\ ret.op = "none"
    /\ wf.pc = "idle"
    /\ \E t \in CoarseTimes : t > now /\ now' = t
    /\ UNCHANGED <<variant, lastQuote, callers, timeOwner, _sf_client, _auth_time, authCount, lastOutcome, gs, ret, crmCalls,
                   wf, quoteCount>>

----------------------------------------------------------------------------
(* get_salesforce statement by statement, for callers running it in threads *)

Callers == 1..MaxCallers

\* A caller outside get_salesforce.
IdleCaller == [pc |-> "idle", token |-> None, outcome |-> "none", value |-> None]

At(c, pc) == callers[c].pc = pc
Goto(c, pc) == callers' = [callers EXCEPT ![c].pc = pc]

\* A caller enters get_salesforce.
Enter(c) ==
    /\ At(c, "idle")
    /\ wf.pc = "idle" /\ ret.op = "none"
    /\ callers' = [callers EXCEPT ![c] = [IdleCaller EXCEPT !.pc = "l89"]]
    /\ UNCHANGED <<variant, lastQuote, timeOwner, now, _sf_client, _auth_time, authCount,
                   lastOutcome, gs, ret, crmCalls, wf, quoteCount>>

\* if _sf_client and _auth_time and (time.time() - _auth_time) > 3600:
TestExpiry(c) ==
    /\ At(c, "l89")
    /\ Goto(c, IF Expired(_sf_client, _auth_time, now) THEN "l91" ELSE "l93")
    /\ UNCHANGED <<variant, lastQuote, timeOwner, now, _sf_client, _auth_time, authCount,
                   lastOutcome, gs, ret, crmCalls, wf, quoteCount>>

\* _sf_client = None
Discard(c) ==
    /\ At(c, "l91")
    /\ _sf_client' = None
    /\ Goto(c, "l93")
    /\ UNCHANGED <<variant, lastQuote, timeOwner, now, _auth_time, authCount,
                   lastOutcome, gs, ret, crmCalls, wf, quoteCount>>

\* if _sf_client is None:
TestAbsent(c) ==
    /\ At(c, "l93")
    /\ Goto(c, IF _sf_client = None THEN "l108" ELSE "l135")
    /\ UNCHANGED <<variant, lastQuote, timeOwner, now, _sf_client, _auth_time, authCount,
                   lastOutcome, gs, ret, crmCalls, wf, quoteCount>>

\* resp = requests.post(...); a failing exchange raises out of the function,
\* a successful one leaves the access token in the local `data`.
Post(c, resp) ==
    /\ At(c, "l108")
    /\ authCount < MaxAuth
    /\ authCount' = authCount + 1
    /\ callers' = [callers EXCEPT ![c] =
                      IF AuthOk(resp)
                      THEN [@ EXCEPT !.pc = "l123", !.token = Some(authCount + 1)]
                      ELSE [@ EXCEPT !.pc = "done", !.outcome = "raise"]]
    /\ UNCHANGED <<variant, lastQuote, timeOwner, now, _sf_client, _auth_time,
                   lastOutcome, gs, ret, crmCalls, wf, quoteCount>>

\* _sf_client = Salesforce(instance_url=..., session_id=...)
StoreClient(c) ==
    /\ At(c, "l123")
    /\ _sf_client' = Some(Salesforce(Val(callers[c].token)))
    /\ Goto(c, "l127")
    /\ UNCHANGED <<variant, lastQuote, timeOwner, now, _auth_time, authCount,
                   lastOutcome, gs, ret, crmCalls, wf, quoteCount>>

\* _auth_time = time.time()
StoreTime(c) ==
    /\ At(c, "l127")
    /\ _auth_time' = Some(now)
    /\ timeOwner' = callers[c].token
    /\ Goto(c, "l135")
    /\ UNCHANGED <<variant, lastQuote, now, _sf_client, authCount,
                   lastOutcome, gs, ret, crmCalls, wf, quoteCount>>

\* return _sf_client
ReturnClient(c) ==
    /\ At(c, "l135")
    /\ callers' = [callers EXCEPT ![c] =
                      [@ EXCEPT !.pc = "done", !.outcome = "return", !.value = _sf_client]]
    /\ UNCHANGED <<variant, lastQuote, timeOwner, now, _sf_client, _auth_time, authCount,
                   lastOutcome, gs, ret, crmCalls, wf, quoteCount>>

\* The caller goes on with what get_salesforce gave it.
Leave(c) ==
    /\ At(c, "done")
    /\ callers' = [callers EXCEPT ![c] = IdleCaller]
    /\ UNCHANGED <<variant, lastQuote, timeOwner, now, _sf_client, _auth_time, authCount,
                   lastOutcome, gs, ret, crmCalls, wf, quoteCount>>

----------------------------------------------------------------------------
(* mcp_request: the JSON-RPC dispatcher of the fastapi server *)

METHOD_NOT_FOUND == -32601

\* The JSON types request.json() may give back.
JsonTypes == {"object", "array", "string", "number", "null"}

\* x.get(...) on a parsed value that is not a dict
NoGet(type) == Exc("AttributeError", <<"'", type, "' object has no attribute 'get'">>)

\* An exception left mcp_request: the server answers 500 Internal Server
\* Error, not a JSON-RPC object.
HandlerRaise(e) ==
    [kind |-> "raise", id |-> None, value |-> None, exc |-> Some(e),
     code |-> None, message |-> None, http_status |-> Some(500)]

\* mcp_request returned {"jsonrpc": "2.0", "id": id, "result": v}
RpcPlainResult(id, v) ==
    [kind |-> "jsonrpc_result", id |-> id, value |-> Some(v), exc |-> None,
     code |-> None, message |-> None, http_status |-> Some(200)]

Methods == {None, Some("initialize"), Some("tools/list"), Some("tools/call"), Some("ping")}

ToolNames == {None, Some("get_accounts"), Some("create_quote_from_opportunity"), Some("drop")}

Tools == {Some("get_accounts"), Some("create_quote_from_opportunity")}

\* The "params" member: absent (None), a value that is not an object, or an
\* object with an optional "name" and "arguments" absent, an object or not.
ParamsValues ==
    {None, Some([type |-> "array", name |-> None, arguments |-> None])}
    \cup { Some([type |-> "object", name |-> n, arguments |-> a]) :
               n \in ToolNames, a \in {None, Some("object"), Some("array")} }

\* The bodies that parse as JSON.
Bodies ==
    { [type |-> t, method |-> None, params |-> None, id |-> None] :
          t \in JsonTypes \ {"object"} }
    \cup { [type |-> "object", method |-> m, params |-> p, id |-> i] :
               m \in Methods, p \in ParamsValues, i \in RequestIds }

\* body.get("params", {})
ParamsOf(body) ==
    IF body.params = None THEN [type |-> "object", name |-> None, arguments |-> None]
    ELSE Val(body.params)

\* The body is a tools/call of one of the two tools with usable arguments:
\* the branch of that tool runs.
RoutedToTool(body) ==
    /\ body.type = "object" /\ body.method = Some("tools/call")
    /\ ParamsOf(body).type = "object"
    /\ ParamsOf(body).name \in Tools
    /\ ParamsOf(body).arguments # Some("array")

\* str(x) of an optional string
Str(o) == IF o = None THEN "None" ELSE Val(o)

\* The outer except clause: request_id = body.get("id") if 'body' in
\* locals(), then the -32603 response. With a body that is not a dict the
\* lookup raises again, inside the handler.
McpExcept(body, e) ==
    IF body.type # "object" THEN HandlerRaise(NoGet(body.type))
    ELSE RpcError(body.id, INTERNAL_ERROR, e.msg)

\* What mcp_request answers to a body that does not reach a tool branch.
McpDispatch(body) ==
    IF body.type # "object" THEN McpExcept(body, NoGet(body.type))
    ELSE CASE body.method = Some("initialize") ->
                  RpcPlainResult(body.id, [protocolVersion |-> "2024-11-05",
                                           serverInfo |-> "salesforce-azure"])
           [] body.method = Some("tools/list") ->
                  RpcPlainResult(body.id, [tools |-> <<"get_accounts",
                                                       "create_quote_from_opportunity">>])
           [] body.method = Some("tools/call") ->
                  IF ParamsOf(body).type # "object"
                  THEN McpExcept(body, NoGet(ParamsOf(body).type))
                  ELSE IF ParamsOf(body).name \notin Tools
                  THEN McpExcept(body, Exc("ValueError",
                                           <<"Unknown tool: ", Str(ParamsOf(body).name)>>))
                  ELSE McpExcept(body, NoGet(Val(ParamsOf(body).arguments)))
           [] OTHER ->
                  RpcError(body.id, METHOD_NOT_FOUND,
                           <<"Method not found: ", Str(body.method)>>)

\* One POST handled by mcp_request without entering a tool branch.
McpRequest(body) ==
    /\ variant = "fastapi"
    /\ wf.pc = "idle"
    /\ ret.op = "none"
    /\ ~RoutedToTool(body)
    /\ ret' = Response("mcp_request", body.id, None, None, McpDispatch(body))
    /\ UNCHANGED <<now, _sf_client, _auth_time, authCount, lastOutcome, gs, crmCalls, wf,
                   quoteCount, variant, lastQuote, callers, timeOwner>>

----------------------------------------------------------------------------

Init ==
    /\ variant \in Variants
    /\ now = 1
    /\ _sf_client = None
    /\ _auth_time = None
    /\ authCount = 0
    /\ lastOutcome = "none"
    /\ gs = NoCall
    /\ ret = NoReturn
    /\ crmCalls = <<>>
    /\ wf = IdleWf
    /\ quoteCount = 0
    /\ lastQuote = None
    /\ callers = [c \in Callers |-> IdleCaller]
    /\ timeOwner = None


\* The inputs of a handler that calls get_salesforce now: the token endpoint
\* is consulted only when the cache is absent or expired, the CRM only with a session.
TokenInputs == IF NeedsAuth THEN TokenResponses ELSE {NoResponse}
DelayInputs == IF NeedsAuth THEN AuthDelays ELSE {0}
IdInputs == IF variant = "fastapi" THEN RequestIds ELSE {None}

\* On the coarse clock the token request (timeout=15) takes no measurable time.
CoarseDelays == {0}
CrmInputs(resp) ==
    IF NeedsAuth /\ ~AuthOk(resp) THEN {<<0, FALSE>>} ELSE (0..MaxAccounts) \X BOOLEAN

Next ==
    \/ Tick
    \/ Respond
    \/ \E id \in IdInputs, limit \in Limits, resp \in TokenInputs, d \in DelayInputs :
          \E c \in CrmInputs(resp) : GetAccounts(id, limit, resp, d, c[1], c[2])

Spec == Init /\ [][Next]_vars

\* The opportunity ids a caller of this variant can pass: FastMCP requires
\* the string argument, the JSON-RPC dispatcher reads arguments.get("opportunity_id").
OpportunityInputs ==
    {Some(i) : i \in OpportunityIds} \cup (IF variant = "fastapi" THEN {None} ELSE {})

\* The answers the Opportunity query of the running invocation may get.
OpportunityInputAnswers ==
    IF wf.pc = "fetch_opp" THEN OpportunityAnswers(Val(wf.opportunity_id)) ELSE {}

NextQuote ==
    \/ TickCoarse
    \/ Respond
    \/ \E id \in IdInputs, oid \in OpportunityInputs, resp \in TokenInputs, d \in CoarseDelays :
          QuoteStart(id, oid, resp, d)
    \/ \E q \in OpportunityInputAnswers : QuoteFetchOpp(q)
    \/ \E ok \in BOOLEAN : QuoteCreate(ok)
    \/ \E a \in AccountAnswers : QuoteAccountLookup(a)
    \/ \E q \in LineAnswers : QuoteFetchLines(q)
    \/ \E ok \in BOOLEAN : QuoteCreateLine(ok)

SpecQuote == Init /\ [][NextQuote]_vars

\* Callers running get_salesforce in threads, interleaved statement by statement.
NextThreads ==
    \/ TickCoarse
    \/ \E c \in Callers : Enter(c)
    \/ \E c \in Callers : TestExpiry(c)
    \/ \E c \in Callers : Discard(c)
    \/ \E c \in Callers : TestAbsent(c)
    \/ \E c \in Callers, resp \in TokenResponses : Post(c, resp)
    \/ \E c \in Callers : StoreClient(c)
    \/ \E c \in Callers : StoreTime(c)
    \/ \E c \in Callers : ReturnClient(c)
    \/ \E c \in Callers : Leave(c)

SpecThreads == Init /\ [][NextThreads]_vars

\* The clock advances while an invocation of the workflow waits for the CRM.
TickDuring ==
    /\ wf.pc # "idle"
    /\ \E t \in CoarseTimes : t > now /\ now' = t
    /\ UNCHANGED <<variant, lastQuote, callers, timeOwner, _sf_client, _auth_time, authCount,
                   lastOutcome, gs, ret, crmCalls, wf, quoteCount>>

\* Another caller runs get_salesforce while an invocation of the workflow is
\* in progress, finds no usable session and writes the globals (a new
\* session, or no client after a failed token request).
OtherCaller(resp) ==
    /\ wf.pc # "idle"
    /\ NeedsAuth
    /\ authCount < MaxAuth
    /\ LET r == GetSalesforce(variant, _sf_client, _auth_time, now, resp, 0, authCount + 1)
       IN  /\ _sf_client' = r.client
           /\ _auth_time' = r.time
           /\ authCount' = authCount + 1
           /\ lastOutcome' = r.outcome
    /\ UNCHANGED <<variant, lastQuote, callers, timeOwner, now, gs, ret, crmCalls, wf,
                   quoteCount>>

\* The CRM answers used where the session of the workflow is studied: an
\* opportunity with a pricebook and a bare account id, an account record,
\* and line items that all have a pricebook entry.
SharedIds == {Some(<<"0", "0", "6", "A">>)}

SharedOpportunityAnswers ==
    IF wf.pc # "fetch_opp" THEN {}
    ELSE { [ok |-> FALSE, records |-> <<>>] } \cup
         { [ok |-> TRUE, records |-> <<o>>] :
               o \in {x \in Opportunities(Val(wf.opportunity_id)) :
                          /\ x.Pricebook2Id = Some("01sP")
                          /\ x.Account = None /\ x.AccountId # None} }

SharedAccountAnswers == {a \in AccountAnswers : a.ok /\ a.records # <<>>}

SharedLineAnswers ==
    {q \in LineAnswers : q.ok /\ q.records # <<>> /\ SkipLines(q.records) = q.records}

NextShared ==
    \/ TickCoarse
    \/ TickDuring
    \/ \E resp \in TokenResponses : OtherCaller(resp)
    \/ Respond
    \/ \E id \in IdInputs, oid \in SharedIds, resp \in TokenInputs :
          QuoteStart(id, oid, resp, 0)
    \/ \E q \in SharedOpportunityAnswers : QuoteFetchOpp(q)
    \/ QuoteCreate(TRUE)
    \/ \E a \in SharedAccountAnswers : QuoteAccountLookup(a)
    \/ \E q \in SharedLineAnswers : QuoteFetchLines(q)
    \/ \E ok \in BOOLEAN : QuoteCreateLine(ok)

SpecShared == Init /\ [][NextShared]_vars

\* The requests the fastapi server receives: bodies answered by the
\* dispatcher itself and the two tool branches.
NextMcp ==
    \/ TickCoarse
    \/ Respond
    \/ \E body \in Bodies : McpRequest(body)
    \/ \E id \in IdInputs, limit \in Limits, resp \in TokenInputs :
          \E c \in CrmInputs(resp) : GetAccounts(id, limit, resp, 0, c[1], c[2])
    \/ \E id \in IdInputs, oid \in OpportunityInputs, resp \in TokenInputs :
          QuoteStart(id, oid, resp, 0)
    \/ \E q \in SharedOpportunityAnswers : QuoteFetchOpp(q)
    \/ \E ok \in BOOLEAN : QuoteCreate(ok)
    \/ \E a \in SharedAccountAnswers : QuoteAccountLookup(a)
    \/ \E q \in SharedLineAnswers : QuoteFetchLines(q)
    \/ \E ok \in BOOLEAN : QuoteCreateLine(ok)

SpecMcp == Init /\ [][NextMcp]_vars

----------------------------------------------------------------------------
(* Properties of the credential cache (specification Spec) *)

\* The age of the cached session when the recorded get_salesforce call was entered.
GsAge == gs.at - Val(gs.pre_time)

GsHadSession == gs.called /\ gs.pre_client # None /\ gs.pre_time # None

GsAuthFailed == gs.called /\ gs.requested /\ ~AuthOk(gs.resp)

\* C1: a get_salesforce call entered while a cached session exists whose age
\* (now - _auth_time) is at most 3600 s sends no token request, returns the
\* cached client itself and leaves _sf_client and _auth_time unchanged.
C1_FreshSessionReturnedUnchanged ==
    (GsHadSession /\ GsAge <= TOKEN_TTL) =>
        /\ ~gs.requested
        /\ gs.outcome = "return"
        /\ gs.value = gs.pre_client
        /\ _sf_client = gs.pre_client
        /\ _auth_time = gs.pre_time

\* C1 witness: a call entered at age exactly 3600 s was served from the cache.
C1_Witness ==
    GsHadSession /\ GsAge = TOKEN_TTL /\ gs.outcome = "return" /\ gs.value = gs.pre_client

\* C2 as stated: a session acquired at T is reused by every call strictly
\* inside (T, T+3600), and a call at or after T+3600 (age 3600 included)
\* authenticates afresh.
C2_ReauthAtOrAfterTtl ==
    GsHadSession =>
        /\ (GsAge > 0 /\ GsAge < TOKEN_TTL) => (~gs.requested /\ gs.value = gs.pre_client)
        /\ GsAge >= TOKEN_TTL => gs.requested

\* C2 amended: a session acquired at T is reused by every call up to and
\* including age 3600 s, and a call made strictly after T+3600 asks the token
\* endpoint again and never returns the old client.
C2_ReauthStrictlyAfterTtl ==
    GsHadSession =>
        /\ GsAge <= TOKEN_TTL => (~gs.requested /\ gs.value = gs.pre_client)
        /\ GsAge > TOKEN_TTL => (gs.requested /\ gs.value # gs.pre_client)

\* C2 witness: a call entered one second past the lifetime authenticated afresh
\* and returned a new client.
C2_Witness ==
    /\ GsHadSession /\ GsAge = TOKEN_TTL + 1
    /\ gs.requested /\ gs.outcome = "return" /\ gs.value # gs.pre_client

C4_SessionAbsentOrPopulated ==
    (_sf_client = None) <=> (_auth_time = None)

\* C5: after a get_salesforce call whose authentication failed (non-200,
\* transport failure, timeout, or a 200 body lacking a key) no client is
\* cached, and the call after a failed one asks the token endpoint again.
C5_FailureNotCachedAndRetried ==
    /\ GsAuthFailed => (gs.outcome = "raise" /\ _sf_client = None)
    /\ (gs.called /\ gs.prev = "raise") => gs.requested

\* C5 witness: the call after a failed one asked the token endpoint again,
\* this time answered 200 with a body lacking instance_url.
C5_Witness ==
    /\ gs.called /\ gs.prev = "raise" /\ gs.requested
    /\ gs.resp.status = "200" /\ "instance_url" \notin gs.resp.keys
    /\ _sf_client = None

----------------------------------------------------------------------------
(* Properties of the account listing (specification Spec) *)

\* The value a finished handler hands to its caller in the success channel.
Payload(out) ==
    IF out.kind = "jsonrpc_result" THEN Val(out.value)[1].text.json ELSE Val(out.value)

InSuccessChannel(out) == out.kind \in {"return", "jsonrpc_result"}

IsErrorList(x) == Len(x) = 1 /\ DOMAIN x[1] = {"error"}

AccountsFailed ==
    /\ ret.op = "get_accounts"
    /\ gs.outcome = "raise" \/ \E i \in 1..Len(crmCalls) : ~crmCalls[i].ok

\* C7: the account listing never raises; on a failing authentication or query
\* it returns, in the channel of the success result, a one-element list
\* holding a record with the single key "error".
C7_AccountsErrorFolded ==
    AccountsFailed =>
        /\ InSuccessChannel(ret.out)
        /\ IsErrorList(Payload(ret.out))

\* C8: when the token endpoint answers with a non-200 status s, the tool
\* get_accounts(5) (azure, http) returns [{"error": m}] with m containing s, and no session
\* is cached.
C8_Non200FoldedWithStatus ==
    (/\ variant \in {"azure", "http"}
     /\ ret.op = "get_accounts" /\ ret.limit = Some(DEFAULT_LIMIT)
     /\ gs.requested /\ gs.resp.kind = "response" /\ gs.resp.status # "200") =>
        /\ InSuccessChannel(ret.out)
        /\ IsErrorList(Payload(ret.out))
        /\ Contains(Payload(ret.out)[1].error, gs.resp.status)
        /\ _sf_client = None

\* C9: for every limit outside [1, 100] the account listing issues the query
\* it issues for limit 5 (LIMIT 5).
C9_OutOfRangeLimitQueriesFive ==
    (/\ ret.op = "get_accounts" /\ ret.limit # None
     /\ (Val(ret.limit) < MIN_LIMIT \/ Val(ret.limit) > MAX_LIMIT)
     /\ crmCalls # <<>>) =>
        crmCalls[1].limit = Some(DEFAULT_LIMIT)

----------------------------------------------------------------------------
(* Properties of the quote workflow (specification SpecQuote) *)

QuoteReturned == ret.op = "create_quote_from_opportunity"

\* The invocation met a failure that the workflow treats as fatal: a missing
\* id, a failing authentication, or a failing CRM call other than the
\* secondary Account query.
QuoteFailed ==
    \/ MissingId(ret.opportunity_id)
    \/ gs.outcome = "raise"
    \/ \E i \in 1..Len(crmCalls) : ~crmCalls[i].ok /\ crmCalls[i].object # "Account"

\* C6: create_quote_from_opportunity never raises to its caller: for every
\* opportunity id (empty or missing included) and every failure the caller
\* gets a normally returned result record with errorMessage set, never an
\* exception or a protocol-level error (azure, http, fastapi dispatcher).
C6_QuoteAlwaysReturnsResult ==
    QuoteReturned =>
        /\ InSuccessChannel(ret.out)
        /\ QuoteFailed => Payload(ret.out).errorMessage # None

StrictVariants == {"azure", "fastapi"}

BadPrefix(oid) == ~MissingId(oid) /\ ~StartsWith(Val(oid), OPP_PREFIX)

\* C10: in the strict variants (azure tool, fastapi create_quote_logic) an
\* opportunity id that is non-empty but does not start with "006" yields a
\* result with errorMessage set and quoteId absent, and the invocation issues
\* no CRM query and no CRM create.
C10_BadPrefixRejectedWithoutCrmCalls ==
    /\ (QuoteReturned /\ variant \in StrictVariants /\ BadPrefix(ret.opportunity_id)) =>
           /\ InSuccessChannel(ret.out)
           /\ Payload(ret.out).errorMessage # None
           /\ Payload(ret.out).quoteId = None
           /\ crmCalls = <<>>
    /\ (wf.pc # "idle" /\ variant \in StrictVariants) => ~BadPrefix(wf.opportunity_id)

\* C10 witness: an id "001A" was rejected with an "Invalid Opportunity ID
\* format" message, no quote id and no CRM call.
C10_Witness ==
    /\ QuoteReturned /\ variant \in StrictVariants
    /\ ret.opportunity_id = Some(<<"0", "0", "1", "A">>)
    /\ InSuccessChannel(ret.out)
    /\ Contains(Val(Payload(ret.out).errorMessage), "Invalid Opportunity ID format: ")
    /\ Payload(ret.out).quoteId = None
    /\ crmCalls = <<>>

\* The result record the caller received (where one was returned).
HasResult == QuoteReturned /\ InSuccessChannel(ret.out)
QuoteResult == Payload(ret.out)

\* Positions in the call history of the invocation being served.
CallsOf(op, object) ==
    {i \in 1..Len(crmCalls) : crmCalls[i].op = op /\ crmCalls[i].object = object}
CreateCalls == {i \in 1..Len(crmCalls) : crmCalls[i].op = "create"}
OkCalls(S) == {i \in S : crmCalls[i].ok}

\* The Opportunity query of the invocation answered with a record.
FetchedOpp ==
    \E i \in CallsOf("query", "Opportunity") : crmCalls[i].ok /\ crmCalls[i].records # <<>>
TheOpp == crmCalls[CHOOSE i \in CallsOf("query", "Opportunity") : TRUE].records[1]

NoPricebookFetched == FetchedOpp /\ TheOpp.Pricebook2Id \in {None, Some("")}

\* C11: when the fetched opportunity has no pricebook reference (absent or
\* empty Pricebook2Id), the workflow returns a result whose errorMessage
\* contains "Pricebook" and whose quoteId is absent, and the invocation issues
\* no create call at all (neither Quote nor QuoteLineItem).
C11_NoPricebookNoQuote ==
    NoPricebookFetched =>
        /\ CreateCalls = {}
        /\ wf.pc = "idle"
        /\ HasResult
        /\ QuoteResult.errorMessage # None
        /\ Contains(Val(QuoteResult.errorMessage), "Pricebook")
        /\ QuoteResult.quoteId = None

\* C11 witness: an opportunity with an empty Pricebook2Id was fetched and the
\* invocation returned.
C11_Witness ==
    /\ QuoteReturned /\ FetchedOpp /\ TheOpp.Pricebook2Id = Some("")
    /\ Contains(Val(QuoteResult.errorMessage), "Pricebook")

OppNotFound ==
    \E i \in CallsOf("query", "Opportunity") : crmCalls[i].ok /\ crmCalls[i].records = <<>>

\* C12: when the Opportunity query returns zero records the workflow ends
\* with an errorMessage containing "not found", every other result field at
\* its default (quoteId absent, quoteLineCount 0, ...) and no create call.
C12_NotFoundTerminal ==
    OppNotFound =>
        /\ CreateCalls = {}
        /\ Len(crmCalls) = 1
        /\ wf.pc = "idle"
        /\ HasResult
        /\ QuoteResult.errorMessage # None
        /\ Contains(Val(QuoteResult.errorMessage), "not found")
        /\ [QuoteResult EXCEPT !.errorMessage = None] = EmptyResult

\* C12 witness: a "not found" result for the id "006A".
C12_Witness ==
    /\ QuoteReturned /\ OppNotFound
    /\ ret.opportunity_id = Some(<<"0", "0", "6", "A">>)
    /\ QuoteResult.quoteId = None /\ QuoteResult.quoteLineCount = 0

\* C13: an invocation issues at most one Quote create call, an invocation
\* that ends with errorMessage absent issued exactly one, and the workflow
\* issues only queries and creates against the CRM (no update, no delete).
C13_OneQuoteCreate ==
    /\ Cardinality(CallsOf("create", "Quote")) <= 1
    /\ \A i \in 1..Len(crmCalls) : crmCalls[i].op \in {"query", "create"}
    /\ (HasResult /\ QuoteResult.errorMessage = None) =>
           Cardinality(CallsOf("create", "Quote")) = 1

\* C13 witness: a run that ended without error after creating its Quote and
\* two quote lines.
C13_Witness ==
    /\ HasResult /\ QuoteResult.errorMessage = None
    /\ Cardinality(CallsOf("create", "Quote")) = 1
    /\ Cardinality(CallsOf("create", "QuoteLineItem")) = 2

\* The Quote create call of the invocation succeeded; the id the CRM gave.
QuoteCreated == OkCalls(CallsOf("create", "Quote")) # {}
CreatedQuoteId == crmCalls[CHOOSE i \in OkCalls(CallsOf("create", "Quote")) : TRUE].records[1]

\* A call after the Quote create failed fatally (the secondary Account query
\* is the one call whose failure is swallowed).
FailedAfterQuote ==
    \E i \in OkCalls(CallsOf("create", "Quote")) :
        \E j \in (i + 1)..Len(crmCalls) : ~crmCalls[j].ok /\ crmCalls[j].object # "Account"

\* C14: once the Quote create call of an invocation has succeeded, the result
\* (while it is being built and when it is returned) has quoteId equal to the
\* created id and opportunityId and opportunityName populated from the fetched
\* opportunity, whatever fails afterwards; no delete is issued for the Quote.
C14_QuoteFieldsSurviveLaterFailure ==
    QuoteCreated =>
        /\ \A i \in 1..Len(crmCalls) : crmCalls[i].op # "delete"
        /\ wf.pc # "idle" =>
               /\ wf.result.quoteId = Some(CreatedQuoteId)
               /\ wf.result.opportunityId = Some(TheOpp.Id)
               /\ wf.result.opportunityName = Some(TheOpp.Name)
        /\ QuoteReturned =>
               /\ HasResult
               /\ QuoteResult.quoteId = Some(CreatedQuoteId)
               /\ QuoteResult.opportunityId = Some(TheOpp.Id)
               /\ QuoteResult.opportunityName = Some(TheOpp.Name)

\* C14 witness: the second QuoteLineItem create failed after the Quote and
\* one line were created, and the result still carries the quote id.
C14_Witness ==
    /\ HasResult /\ QuoteCreated
    /\ \E i, j \in CallsOf("create", "QuoteLineItem") :
           i < j /\ crmCalls[i].ok /\ ~crmCalls[j].ok
    /\ QuoteResult.errorMessage # None
    /\ QuoteResult.quoteId = Some(CreatedQuoteId)

\* The OpportunityLineItem query of the invocation and its records.
LinesFetched == OkCalls(CallsOf("query", "OpportunityLineItem")) # {}
TheLines == crmCalls[CHOOSE i \in CallsOf("query", "OpportunityLineItem") : TRUE].records
WithPricebookEntry == {j \in 1..Len(TheLines) : TheLines[j].PricebookEntryId # None}

NoCollaboratorFailure ==
    gs.outcome # "raise" /\ \A i \in 1..Len(crmCalls) : crmCalls[i].ok

\* C15: for a run without collaborator failure over N opportunity line items
\* of which K have a pricebook-entry reference, the returned result has
\* quoteLineCount = K, len(quoteLines) = K and errorMessage absent (azure,
\* http, fastapi create_quote_logic).
C15_CountAndLinesEqualK ==
    (HasResult /\ NoCollaboratorFailure /\ LinesFetched) =>
        /\ QuoteResult.quoteLineCount = Cardinality(WithPricebookEntry)
        /\ Len(QuoteResult.quoteLines) = Cardinality(WithPricebookEntry)
        /\ QuoteResult.errorMessage = None

\* C16: in every returned result, runs failing part-way through the line
\* stage included, quoteLineCount is the number of QuoteLineItem records the
\* invocation actually created in the CRM.
C16_CountIsLinesCreated ==
    HasResult =>
        QuoteResult.quoteLineCount = Cardinality(OkCalls(CallsOf("create", "QuoteLineItem")))

\* C17 (as stated): in every returned result exactly one of "quoteId is
\* populated" and "errorMessage is non-null" holds, never both and never
\* neither.
C17_ExactlyOneOfQuoteIdAndError ==
    HasResult => ((QuoteResult.quoteId # None) # (QuoteResult.errorMessage # None))

\* C17 (amended): in every returned result at least one of "quoteId is
\* populated" and "errorMessage is non-null" holds (never neither), a result
\* without errorMessage has its quoteId, and both hold exactly when a call
\* after the successful Quote create failed (partial success stays visible).
C17_QuoteIdOrErrorBothAfterLateFailure ==
    HasResult =>
        /\ QuoteResult.quoteId # None \/ QuoteResult.errorMessage # None
        /\ (QuoteResult.quoteId # None /\ QuoteResult.errorMessage # None) <=> FailedAfterQuote

\* C17 witness: a result with both a quote id and an error message, the line
\* item query having failed after the Quote was created.
C17_Witness ==
    /\ HasResult /\ QuoteCreated
    /\ \E i \in CallsOf("query", "OpportunityLineItem") : ~crmCalls[i].ok
    /\ QuoteResult.quoteId # None
    /\ QuoteResult.errorMessage # None

\* The fetched opportunity carries only a bare account id.
BareAccountId == FetchedOpp /\ TheOpp.Account = None /\ TheOpp.AccountId # None

AccountLookupFailed == \E i \in CallsOf("query", "Account") : ~crmCalls[i].ok

\* C18: when the fetched opportunity carries only a bare account id, the
\* workflow (azure, http, fastapi create_quote_logic) issues a second query on
\* Account; if that query fails, accountName, accountPhone and
\* accountIndustry stay absent, the line-item query is still issued, and
\* errorMessage is set only if some other call failed.
C18_SecondaryLookupNonFatal ==
    (HasResult /\ BareAccountId /\ QuoteCreated) =>
        /\ CallsOf("query", "Account") # {}
        /\ AccountLookupFailed =>
               /\ QuoteResult.accountName = None
               /\ QuoteResult.accountPhone = None
               /\ QuoteResult.accountIndustry = None
               /\ CallsOf("query", "OpportunityLineItem") # {}
               /\ QuoteResult.errorMessage # None => FailedAfterQuote

\* C19: the workflow is not idempotent: a successful invocation for the
\* opportunity id of the last successfully answered invocation issues its own
\* Quote create call (and never queries the Quote object for an existing
\* one), and its result carries a quoteId different from the earlier one.
C19_SecondCallCreatesSecondQuote ==
    (SuccessfulQuote(ret) /\ lastQuote # None
        /\ Val(lastQuote).opportunity_id = ret.opportunity_id) =>
        /\ Cardinality(OkCalls(CallsOf("create", "Quote"))) = 1
        /\ CallsOf("query", "Quote") = {}
        /\ QuoteResult.quoteId = Some(CreatedQuoteId)
        /\ QuoteResult.quoteId # Val(lastQuote).quoteId

\* C19 witness: two successful invocations for "006A", answered with the
\* quote ids 1 and 2.
C19_Witness ==
    /\ SuccessfulQuote(ret)
    /\ ret.opportunity_id = Some(<<"0", "0", "6", "A">>)
    /\ lastQuote = Some([opportunity_id |-> ret.opportunity_id, quoteId |-> Some(1)])
    /\ QuoteResult.quoteId = Some(2)

\* The line items for which a QuoteLineItem create is issued, in order.
HasPricebookEntry(oli) == oli.PricebookEntryId # None
CreatedFrom == SelectSeq(TheLines, HasPricebookEntry)
LineCreates == CallsOf("create", "QuoteLineItem")
NthLineCreate(n) == CHOOSE i \in LineCreates : Cardinality({j \in LineCreates : j <= i}) = n

\* The source value behind a response field / behind a create field.
SourceOf(rec, key) == IF key \in DOMAIN rec THEN rec[key] ELSE None
ListPriceOf(oli) ==
    IF SourceOf(oli, "PricebookEntry") = None THEN None
    ELSE SourceOf(Val(oli.PricebookEntry), "UnitPrice")
Coerced(x) == IF x = None \/ x = Some(0) THEN None ELSE Some([float |-> Val(x)])
Raw(rec, key) == IF key \in DOMAIN rec THEN rec[key] ELSE Some(0)

\* C20: (azure, http) for each created quote line the response entry's
\* listPrice, salesPrice and quantity are the float of the source value when
\* it is truthy and None when it is zero, null or missing, while the
\* QuoteLineItem create call carries the raw quantity and unit price (0 when
\* the key is missing).
C20_ResponseCoercedCreateRaw ==
    (variant # "fastapi" /\ LinesFetched) =>
        /\ \A n \in 1..Cardinality(LineCreates) :
               LET d == Val(crmCalls[NthLineCreate(n)].data)
               IN  /\ d.Quantity = Raw(CreatedFrom[n], "Quantity")
                   /\ d.UnitPrice = Raw(CreatedFrom[n], "UnitPrice")
        /\ HasResult =>
               \A n \in 1..Len(QuoteResult.quoteLines) :
                   LET r == QuoteResult.quoteLines[n]
                   IN  /\ r.listPrice = Coerced(ListPriceOf(CreatedFrom[n]))
                       /\ r.salesPrice = Coerced(SourceOf(CreatedFrom[n], "UnitPrice"))
                       /\ r.quantity = Coerced(SourceOf(CreatedFrom[n], "Quantity"))

\* C20 witness: a returned line whose quantity is zero and whose unit price
\* key is missing (absent in the response, 0 in the create call) next to a
\* line whose values are floats.
C20_Witness ==
    /\ variant # "fastapi" /\ HasResult /\ Len(QuoteResult.quoteLines) = 2
    /\ QuoteResult.quoteLines[1].quantity = None
    /\ QuoteResult.quoteLines[1].salesPrice = None
    /\ Val(crmCalls[NthLineCreate(1)].data).Quantity = Some(0)
    /\ Val(crmCalls[NthLineCreate(1)].data).UnitPrice = Some(0)
    /\ QuoteResult.quoteLines[2].quantity = Some([float |-> 3])
    /\ QuoteResult.quoteLines[2].listPrice = Some([float |-> 12])

----------------------------------------------------------------------------
(* Properties of get_salesforce under concurrent callers (specification SpecThreads) *)

\* The cached client and the cached time were written by the same authentication.
CachePaired == timeOwner = Some(Val(_sf_client).session_id)

\* The callers that went through a successful token exchange in this call.
Authenticated == {c \in Callers : callers[c].token # None}

AllFinished == \A c \in Callers : callers[c].pc \in {"idle", "done"}

----------------------------------------------------------------------------
(* Further properties of the credential cache (specification Spec) *)

\* The recorded call was entered with a cached session older than 3600 seconds.
GsEnteredExpired == GsHadSession /\ GsAge > TOKEN_TTL

\* C24: a get_salesforce call entered with a cached session older than 3600
\* seconds never returns that session: it asks the token endpoint, and either
\* returns and caches a client built from the new token, with an acquisition
\* time not before the call, or raises and leaves the cache without a client.
C24_ExpiredSessionNeverReturned ==
    GsEnteredExpired =>
        /\ gs.requested
        /\ gs.post_client # gs.pre_client
        /\ \/ /\ gs.outcome = "return"
              /\ gs.value # None
              /\ gs.value # gs.pre_client
              /\ gs.value = gs.post_client
              /\ gs.post_time # None /\ Val(gs.post_time) >= gs.at
           \/ /\ gs.outcome = "raise"
              /\ gs.value = None
              /\ gs.post_client = None

C24_Witness ==
    /\ GsEnteredExpired
    /\ GsAge = TOKEN_TTL + 1
    /\ gs.outcome = "return"
    /\ gs.value # gs.pre_client

----------------------------------------------------------------------------
(* Further properties of the account listing (specification Spec) *)

AccountsListed == ret.op = "get_accounts" /\ gs.outcome = "return"

\* C30: the account listing issues no create call and, once it has its
\* session, exactly one CRM call, a query on Account (none when no session
\* could be obtained); for a limit inside [1, 100] that query asks for exactly
\* the given number of rows; and when the query succeeds the handler returns
\* the records the CRM answered, in the order received.
C30_OneAccountQueryReturnedAsReceived ==
    ret.op = "get_accounts" =>
        /\ \A i \in 1..Len(crmCalls) : crmCalls[i].op = "query"
        /\ Len(crmCalls) = IF gs.outcome = "return" THEN 1 ELSE 0
        /\ gs.outcome = "return" =>
              /\ crmCalls[1].object = "Account"
              /\ crmCalls[1].session = Val(gs.value).session_id
              /\ (ret.limit # None /\ Val(ret.limit) \in MIN_LIMIT..MAX_LIMIT) =>
                     crmCalls[1].limit = ret.limit
              /\ crmCalls[1].ok =>
                     /\ InSuccessChannel(ret.out)
                     /\ Payload(ret.out) = crmCalls[1].records

C30_Witness ==
    /\ AccountsListed
    /\ ret.limit = Some(MAX_LIMIT)
    /\ crmCalls[1].ok
    /\ Len(crmCalls[1].records) = MaxAccounts
    /\ Payload(ret.out) = crmCalls[1].records

----------------------------------------------------------------------------
(* Further properties of the quote workflow (specification SpecQuote) *)

\* The invocation reached the workflow body: the id passed the dispatcher.
BodyRan == QuoteReturned /\ ~MissingId(ret.opportunity_id)

\* What the azure tool stores in quoteLines after a loop that created a line
\* for every fetched line item with a pricebook entry.
AzureQuoteLines == [n \in 1..Len(CreatedFrom) |-> LineResponse(CreatedFrom[n])]

\* C23: create_quote_logic (fastapi) behaves as the azure tool does on the
\* same id and the same CRM answers: it returns a result record; it rejects
\* an id with the azure tool's message; where the azure tool looks the
\* account up with a second query, that query is in its call sequence; after
\* a run without failure quoteLines and quoteLineCount are those the azure
\* tool stores; and a run that fails has the azure tool's quoteLineCount, 0.
C23_LogicSameAsAzureTool ==
    (BodyRan /\ variant \in {"azure", "fastapi"}) =>
        /\ HasResult
        /\ Validate("azure", ret.opportunity_id) # None =>
               QuoteResult.errorMessage = Some(Val(Validate("azure", ret.opportunity_id)).msg)
        /\ (QuoteCreated /\ LooksUpAccount("azure", TheOpp)) =>
               /\ CallsOf("query", "Account") # {}
               /\ \A i \in OkCalls(CallsOf("create", "Quote")) :
                      crmCalls[i + 1].op = "query" /\ crmCalls[i + 1].object = "Account"
        /\ (NoCollaboratorFailure /\ LinesFetched /\ CreatedFrom # <<>>) =>
               /\ QuoteResult.quoteLines = AzureQuoteLines
               /\ QuoteResult.quoteLineCount = Len(AzureQuoteLines)
        /\ QuoteResult.errorMessage # None => QuoteResult.quoteLineCount = 0

\* The Opportunity query at position j answered a record with a pricebook.
PricebookAnswerAt(j) ==
    /\ crmCalls[j].op = "query" /\ crmCalls[j].object = "Opportunity"
    /\ crmCalls[j].ok /\ crmCalls[j].records # <<>>
    /\ crmCalls[j].records[1].Pricebook2Id \notin {None, Some("")}

\* The Quote create at position j succeeded and returned the id q.
QuoteCreatedAt(j, q) ==
    /\ crmCalls[j].op = "create" /\ crmCalls[j].object = "Quote"
    /\ crmCalls[j].ok /\ crmCalls[j].records = <<q>>

\* C26: in the call sequence of an invocation, a Quote create comes after an
\* Opportunity query that answered a record with a non-empty Pricebook2Id,
\* and every QuoteLineItem create comes after a successful Quote create and
\* carries as QuoteId the id that create returned.
C26_CallsInStageOrder ==
    /\ \A i \in CallsOf("create", "Quote") : \E j \in 1..(i - 1) : PricebookAnswerAt(j)
    /\ \A i \in CallsOf("create", "QuoteLineItem") :
           \E j \in 1..(i - 1) : QuoteCreatedAt(j, Val(crmCalls[i].data).QuoteId)

\* C26 witness: two QuoteLineItem creates issued after the Quote create, both
\* carrying the created quote's id.
C26_Witness ==
    /\ QuoteCreated
    /\ Cardinality(CallsOf("create", "QuoteLineItem")) = 2
    /\ \A i \in CallsOf("create", "QuoteLineItem") :
           Val(crmCalls[i].data).QuoteId = CreatedQuoteId

\* A CRM call of the fetch, quote-creation or line-creation stage failed at
\* position i (the secondary Account query is not one of these stages).
StageFailedAt(i) == ~crmCalls[i].ok /\ crmCalls[i].object # "Account"

\* C27: a failing Opportunity query, Quote create, OpportunityLineItem query
\* or QuoteLineItem create is the last CRM call of its invocation: the
\* invocation has ended and returned its result with errorMessage equal to
\* the failure's text.
C27_StageFailureShortCircuits ==
    \A i \in 1..Len(crmCalls) :
        StageFailedAt(i) =>
            /\ i = Len(crmCalls)
            /\ wf.pc = "idle"
            /\ HasResult
            /\ QuoteResult.errorMessage = Some(CrmError.msg)

\* C27 witness: the first of two lines with a pricebook entry failed to be
\* created and the second was never attempted.
C27_Witness ==
    /\ HasResult /\ LinesFetched
    /\ Cardinality(WithPricebookEntry) = 2
    /\ Cardinality(CallsOf("create", "QuoteLineItem")) = 1
    /\ StageFailedAt(Len(crmCalls))
    /\ crmCalls[Len(crmCalls)].object = "QuoteLineItem"
    /\ QuoteResult.errorMessage = Some(CrmError.msg)

\* The response r answers an id that input validation rejects.
RejectedAtValidation(r) ==
    /\ r.op = "create_quote_from_opportunity"
    /\ \/ MissingId(r.opportunity_id)
       \/ variant \in StrictVariants /\ BadPrefix(r.opportunity_id)

\* C28: a step in which the quote workflow rejects its id at validation
\* (empty or missing; wrong prefix in azure and fastapi) sends no token
\* request, does not call get_salesforce, issues no CRM call and leaves
\* _sf_client and _auth_time as they were.
C28_RejectionLeavesCacheAlone ==
    [][(ret.op = "none" /\ RejectedAtValidation(ret')) =>
           /\ authCount' = authCount
           /\ _sf_client' = _sf_client
           /\ _auth_time' = _auth_time
           /\ ~gs'.called
           /\ crmCalls' = <<>>]_vars

\* C28 witness: an id was rejected while the cache held a session past its
\* lifetime, which a call of get_salesforce would have discarded.
C28_Witness ==
    /\ RejectedAtValidation(ret)
    /\ Expired(_sf_client, _auth_time, now)

----------------------------------------------------------------------------
(* The session of a running invocation (specification SpecShared) *)

\* An invocation of the workflow is running or has just returned.
InvocationOpen == wf.pc # "idle" \/ QuoteReturned

\* The cache no longer holds the session the invocation obtained, or that
\* session has passed its lifetime.
SessionOvertaken ==
    /\ gs.called /\ gs.outcome = "return"
    /\ \/ _sf_client # gs.value
       \/ now - Val(gs.post_time) > TOKEN_TTL

\* C29: an invocation of the workflow calls get_salesforce once, before its
\* first CRM call, and every query and create it issues carries the token of
\* the client that call returned, whatever happens to the clock and to the
\* shared cache while the invocation runs.
C29_OneSessionForAllCalls ==
    InvocationOpen =>
        /\ crmCalls # <<>> => gs.called /\ gs.outcome = "return"
        /\ wf.pc # "idle" => gs.called /\ gs.outcome = "return" /\ wf.sf = gs.value
        /\ \A i \in 1..Len(crmCalls) : crmCalls[i].session = Val(gs.value).session_id

\* C29 witness: an invocation created its Quote and a quote line with the
\* session it started with although that session is past 3600 seconds and
\* the cache holds another caller's client.
C29_Witness ==
    /\ InvocationOpen
    /\ gs.called /\ gs.outcome = "return"
    /\ _sf_client # None /\ _sf_client # gs.value
    /\ now - Val(gs.post_time) > TOKEN_TTL
    /\ CallsOf("create", "QuoteLineItem") # {}
    /\ \A i \in 1..Len(crmCalls) : crmCalls[i].session = Val(gs.value).session_id

\* The fetched opportunity came back with its account embedded.
EmbeddedAccount == FetchedOpp /\ TheOpp.Account # None

\* C31: when the fetched opportunity carries an embedded account object and
\* the Quote was created, the returned result has accountName, accountPhone
\* and accountIndustry of that object, accountId is the object's Id or, when
\* it has none, the opportunity's AccountId, and the invocation issued no
\* query on Account.
C31_EmbeddedAccountUsedDirectly ==
    (HasResult /\ QuoteCreated /\ EmbeddedAccount) =>
        /\ QuoteResult.accountName = Val(TheOpp.Account).Name
        /\ QuoteResult.accountPhone = Val(TheOpp.Account).Phone
        /\ QuoteResult.accountIndustry = Val(TheOpp.Account).Industry
        /\ QuoteResult.accountId = IF Val(TheOpp.Account).Id # None
                                   THEN Val(TheOpp.Account).Id
                                   ELSE TheOpp.AccountId
        /\ CallsOf("query", "Account") = {}

\* C31 witness: an embedded account without Id; the result took its name
\* from the object and its accountId from the opportunity, and the line item
\* query followed the Quote create directly.
C31_Witness ==
    /\ HasResult /\ QuoteCreated /\ EmbeddedAccount
    /\ Val(TheOpp.Account).Id = None
    /\ QuoteResult.accountId = Some("001X")
    /\ QuoteResult.accountName = Some("Acme")
    /\ CallsOf("query", "Account") = {}
    /\ CallsOf("query", "OpportunityLineItem") # {}

----------------------------------------------------------------------------
(* Properties of the dispatcher (specification SpecMcp) *)

\* The fastapi server has answered a POST.
McpAnswered == variant = "fastapi" /\ ret.op # "none"

\* C32: whatever JSON value the body of a POST parses to, mcp_request
\* answers with a JSON-RPC response object that carries a result or an
\* error, no exception leaves the handler, and the response's id is the id
\* of the request.
C32_AlwaysJsonRpcResponse ==
    McpAnswered =>
        /\ ret.out.kind \in {"jsonrpc_result", "jsonrpc_error"}
        /\ ret.out.id = ret.request_id

\* The part of C32 that concerns bodies that are JSON objects: they are
\* answered with a JSON-RPC response carrying the request's id.
C32_ObjectBodiesAnswered ==
    (McpAnswered /\ ret.out.kind # "raise") =>
        /\ ret.out.kind \in {"jsonrpc_result", "jsonrpc_error"}
        /\ ret.out.id = ret.request_id

====
